---- MODULE Spec2Model ----
(***************************************************************************)
(* DeepSoul: progressive batch ingestion and live-state reconciliation.    *)
(*                                                                         *)
(* Three programs take part:                                               *)
(*   - the workflow engine (n8n), which accepts a start request, assigns   *)
(*     an execution id and posts callbacks to the relay;                   *)
(*   - the relay (callback server, app.post('/callback'),                  *)
(*     app.get('/status')), which accumulates callbacks per execution id;  *)
(*   - the dashboard client (useTriggerAnalysis, useExecutionStatus,       *)
(*     getExecutionStatus, IntegratedDashboard, ThreatAnalysisWorkflow),   *)
(*     which polls the relay and merges each snapshot into threatData.     *)
(* The polling hook useN8nData of the example App is modelled beside them. *)
(***************************************************************************)
EXTENDS Integers, Sequences, FiniteSets, TLC

VARIABLES
    executions,          \* relay: Map execution id -> record (const executions = new Map())
    engine,              \* workflow engine: accepted run id -> number of callbacks emitted in order
    trigger,             \* the useTriggerAnalysis mutation: phase, attempt, id of the response
    view,                \* which component is mounted: IntegratedDashboard or ThreatAnalysisWorkflow
    config,              \* useState<WorkflowConfig>
    currentExecutionId,  \* useState<string | null>
    cache,               \* TanStack query cache: ['execution', id] -> ExecutionStatus
    inflight,            \* status queries in flight: id -> request or response
    threatData,          \* useState<ThreatData[]> (IntegratedDashboard)
    forceUpdateCounter,  \* useState(0)
    firstBatchReceived,  \* useState(false)
    nonDecr,             \* history: every snapshot merged for the tracked id was at least as long as the one before
    restarts,            \* history: how often the relay process was restarted
    strays,              \* history: callbacks the relay received outside the engine's order
    last,                \* history: what the last step was
    webhookUrl,          \* useN8nData: its first argument
    refreshInterval,     \* useN8nData: its second argument
    n8nData,             \* useN8nData: useState<T[]>([]), the hook's data
    loading,             \* useN8nData: useState<boolean>(true)
    error,               \* useN8nData: useState<string | null>(null)
    fetches,             \* useN8nData: the fetchData calls that are suspended at an await
    interval             \* useN8nData: the polling effect: not yet run, no timer, or timer set

n8nVars == <<webhookUrl, refreshInterval, n8nData, loading, error, fetches, interval>>

vars == <<executions, engine, trigger, view, config, currentExecutionId, cache,
          inflight, threatData, forceUpdateCounter, firstBatchReceived, nonDecr,
          restarts, strays, last, n8nVars>>

relayVars == <<executions, engine, restarts, strays>>
clientVars == <<trigger, view, config, currentExecutionId, cache, inflight,
                threatData, forceUpdateCounter, firstBatchReceived, nonDecr>>
displayVars == <<threatData, forceUpdateCounter, firstBatchReceived>>

-----------------------------------------------------------------------------
(* Bounds of the model *)

\* fetchData calls of useN8nData that are in flight at the same time
MaxFetches == 2

\* callbacks the relay receives outside the engine's order
MaxStray == 1
\* value of forceUpdateCounter up to which tab-visible events are taken
MaxCounter == 2
\* restarts of the relay process
MaxRestarts == 1

(* Program constants *)
DefaultBatchSize == 50
DefaultMaxItems == 200
ProgressCap == 99
MutationRetry == 1
QueryRetry == 3
DefaultRefreshInterval == 30000

(* Value sets *)
IdOrder == <<"A", "B">>
ExecIds == {IdOrder[i] : i \in 1..Len(IdOrder)}
Null == "null"
Undef == "undefined"
Summaries == {"S1", "S2"}
\* one run of the workflow engine: the _unique_id of the record of each batch, in
\* the order of emission; the completed callback follows
RunPlan == <<1, 2>>
RunBatches == Len(RunPlan)
\* numbers typed into the configuration inputs: Number('') of a cleared input is 0
InputValues == {0}
Views == {"IntegratedDashboard", "ThreatAnalysisWorkflow"}
EmptyMap == [x \in {} |-> x]

\* the value of last after a step that is no delivery of a status response
Other == [op |-> "other", id |-> Null, tracked |-> FALSE, same |-> FALSE]

Put(map, k, v) == [x \in (DOMAIN map) \cup {k} |-> IF x = k THEN v ELSE map[x]]
Remove(map, k) == [x \in (DOMAIN map) \ {k} |-> map[x]]

-----------------------------------------------------------------------------
(* Relay: app.post('/callback') and app.get('/status') *)

NewExecution == [batches |-> 0, hasAllResults |-> FALSE, allResults |-> <<>>,
                 completedTime |-> Undef, finalSummary |-> Undef]

\* mutant of CallbackRecord: the relay keeps the results of the latest batch only
CallbackRecordLatest(executionId, status, hasBatchResults, batchResults, summary) ==
    LET execution == IF executionId \in DOMAIN executions
                     THEN executions[executionId] ELSE NewExecution
    IN  CASE status = "batch_completed" ->
               [execution EXCEPT !.batches = @ + 1,
                                 !.hasAllResults = TRUE,
                                 !.allResults = IF hasBatchResults THEN batchResults ELSE @]
          [] status = "completed" ->
               [execution EXCEPT !.completedTime = "set", !.finalSummary = summary]
          [] OTHER -> execution

\* mutant of CallbackRecord: a batch callback reopens a completed execution
CallbackRecordReopens(executionId, status, hasBatchResults, batchResults, summary) ==
    LET execution == IF executionId \in DOMAIN executions
                     THEN executions[executionId] ELSE NewExecution
    IN  CASE status = "batch_completed" ->
               [execution EXCEPT !.batches = @ + 1,
                                 !.hasAllResults = TRUE,
                                 !.allResults = IF hasBatchResults THEN @ \o batchResults ELSE @,
                                 !.completedTime = Undef]
          [] status = "completed" ->
               [execution EXCEPT !.completedTime = "set", !.finalSummary = summary]
          [] OTHER -> execution

\* the record of executionId after the callback (status, batch_results, summary);
\* batchResults is <<>> with hasBatchResults FALSE when the body carries none
CallbackRecord(executionId, status, hasBatchResults, batchResults, summary) ==
    LET execution == IF executionId \in DOMAIN executions
                     THEN executions[executionId] ELSE NewExecution
    IN  CASE status = "batch_completed" ->
               [execution EXCEPT !.batches = @ + 1,
                                 !.hasAllResults = TRUE,
                                 !.allResults = IF hasBatchResults THEN @ \o batchResults ELSE @]
          [] status = "completed" ->
               [execution EXCEPT !.completedTime = "set", !.finalSummary = summary]
          [] OTHER -> execution

\* mutant of Callback: the relay keeps one record, that of the latest callback's id
CallbackSingleRecord(executionId, status, hasBatchResults, batchResults, summary) ==
    executions' = Put(EmptyMap, executionId,
                      CallbackRecord(executionId, status, hasBatchResults, batchResults, summary))

Callback(executionId, status, hasBatchResults, batchResults, summary) ==
    executions' = Put(executions, executionId,
                      CallbackRecord(executionId, status, hasBatchResults, batchResults, summary))

\* the body of GET /status: one entry per execution
StatusResponse ==
    { [execution_id |-> id,
       has_all_results |-> TRUE,
       completed_time |-> executions[id].completedTime,
       batches_received |-> executions[id].batches,
       final_summary |-> executions[id].finalSummary,
       all_results |-> executions[id].allResults,
       total_results_count |-> Len(executions[id].allResults)] : id \in DOMAIN executions }

\* malformed bodies of GET /status: one without an executions list, and one
\* whose executions carry no all_results
MalformedBodies ==
    { [hasExecutions |-> FALSE, executions |-> {}],
      [hasExecutions |-> TRUE,
       executions |-> { [e EXCEPT !.has_all_results = FALSE, !.all_results = <<>>] :
                        e \in StatusResponse }] }

-----------------------------------------------------------------------------
(* Client: getExecutionStatus *)

\* getExecutionStatus throws a TypeError on data.executions.length when the body
\* has no executions list
getExecutionStatusThrows(body) == ~ body.hasExecutions

\* the short ExecutionStatus shape: no allResults, batchesReceived, finalSummary
ShortStatus(found, executionId, status) ==
    [found |-> found, executionId |-> executionId, status |-> status, progress |-> 0,
     hasAllResults |-> FALSE, allResults |-> <<>>, batchesReceived |-> 0,
     finalSummary |-> Undef, completedTime |-> Undef, totalResultsCount |-> 0]

\* mutant of getExecutionStatus: the list is not filtered by the requested id
getExecutionStatusUnfiltered(executionId, data) ==
    IF data = {}
    THEN ShortStatus(FALSE, executionId, "not_found")
    ELSE LET execution == CHOOSE e \in data : TRUE
             isCompleted == execution.completed_time # Undef
         IN  [found |-> TRUE,
              executionId |-> execution.execution_id,
              status |-> IF isCompleted THEN "completed" ELSE "processing",
              progress |-> IF isCompleted THEN 100 ELSE 0,
              hasAllResults |-> TRUE,
              allResults |-> execution.all_results,
              batchesReceived |-> execution.batches_received,
              finalSummary |-> execution.final_summary,
              completedTime |-> execution.completed_time,
              totalResultsCount |-> execution.total_results_count]

getExecutionStatus(executionId, data) ==
    LET found == {e \in data : e.execution_id = executionId}
    IN  IF found = {}
        THEN ShortStatus(FALSE, executionId, "not_found")
        ELSE LET execution == CHOOSE e \in found : TRUE
                 isCompleted == execution.completed_time # Undef
             IN  [found |-> TRUE,
                  executionId |-> execution.execution_id,
                  status |-> IF isCompleted THEN "completed" ELSE "processing",
                  progress |-> IF isCompleted THEN 100 ELSE 0,
                  hasAllResults |-> TRUE,
                  allResults |-> IF execution.has_all_results
                                 THEN execution.all_results ELSE <<>>,
                  batchesReceived |-> execution.batches_received,
                  finalSummary |-> execution.final_summary,
                  completedTime |-> execution.completed_time,
                  totalResultsCount |-> execution.total_results_count]

\* mutant of queryKey: one cache entry shared by every execution id, the tracked one
queryKeyShared(executionId) ==
    IF currentExecutionId \in DOMAIN cache THEN currentExecutionId ELSE executionId

\* queryKey: ['execution', executionId]: the cache entry of an execution id
queryKey(executionId) == executionId

\* useTriggerAnalysis.onSuccess: the initial query data
initialData(executionId) == ShortStatus(TRUE, executionId, "processing")

-----------------------------------------------------------------------------
(* Client: derived values of the component *)

isPending == trigger.phase # "idle"

hasStatus == currentExecutionId # Null /\ currentExecutionId \in DOMAIN cache

\* mutant of enabled: the query runs without an execution id
enabledAlways == TRUE

\* useExecutionStatus.enabled: enabled && !!executionId
enabled == currentExecutionId # Null

\* executionStatus?.status
statusOf == IF hasStatus THEN cache[currentExecutionId].status ELSE Undef

isProcessing == isPending \/ (currentExecutionId # Null /\ statusOf # "completed")
isCompleted == statusOf = "completed"

\* mutant of refetchInterval: the interval stops on completed only
refetchIntervalIgnoresFound(id) ==
    /\ id \in DOMAIN cache
    /\ ~ (cache[id].status = "completed")

\* mutant of refetchInterval: the interval stops on found=false only
refetchIntervalIgnoresCompleted(id) ==
    /\ id \in DOMAIN cache
    /\ cache[id].found

\* useExecutionStatus.refetchInterval: TRUE when the interval keeps running
refetchInterval(id) ==
    /\ id \in DOMAIN cache
    /\ ~ (cache[id].status = "completed" \/ ~ cache[id].found)

\* executionStatus.allResults.length, 0 when there is no list
SnapLen(st) == IF st.hasAllResults THEN Len(st.allResults) ELSE 0

-----------------------------------------------------------------------------
(* Client: calculateProgress.  A JavaScript number is modelled as a fraction   *)
(* n/d of integers (d > 0), Infinity or NaN; the operands are never negative.  *)

Fin(n, d) == [k |-> "fin", n |-> n, d |-> d]
Infinity == [k |-> "inf", n |-> 1, d |-> 1]
NaN == [k |-> "nan", n |-> 0, d |-> 1]

\* x / y
JsDiv(x, y) ==
    CASE x.k = "nan" \/ y.k = "nan" -> NaN
      [] x.k = "inf" -> IF y.k = "inf" THEN NaN ELSE Infinity
      [] y.k = "inf" -> Fin(0, 1)
      [] y.n = 0 -> IF x.n = 0 THEN NaN ELSE Infinity
      [] OTHER -> Fin(x.n * y.d, x.d * y.n)

\* x * 100
JsTimes100(x) == IF x.k = "fin" THEN Fin(100 * x.n, x.d) ELSE x

\* Math.ceil(x)
MathCeil(x) == IF x.k = "fin" THEN Fin((x.n + x.d - 1) \div x.d, 1) ELSE x

\* x <= y
JsLeq(x, y) ==
    CASE x.k = "nan" \/ y.k = "nan" -> FALSE
      [] y.k = "inf" -> TRUE
      [] x.k = "inf" -> FALSE
      [] OTHER -> x.n * y.d <= y.n * x.d

\* Math.max(x, y), Math.min(x, y)
MathMax(x, y) == IF x.k = "nan" \/ y.k = "nan" THEN NaN ELSE IF JsLeq(x, y) THEN y ELSE x
MathMin(x, y) == IF x.k = "nan" \/ y.k = "nan" THEN NaN ELSE IF JsLeq(x, y) THEN x ELSE y

\* mutant of calculateProgressOf: the smaller of the two estimators is taken
calculateProgressMin(has, st, cfg) ==
    IF ~ has THEN Fin(0, 1)
    ELSE IF st.status = "completed" THEN Fin(100, 1)
    ELSE LET resultsProgress == JsTimes100(JsDiv(Fin(SnapLen(st), 1), Fin(cfg.max_items, 1)))
             expectedBatches == MathCeil(JsDiv(Fin(cfg.max_items, 1), Fin(cfg.batch_size, 1)))
             batchProgress == JsTimes100(JsDiv(Fin(st.batchesReceived, 1), expectedBatches))
         IN  MathMin(MathMin(resultsProgress, batchProgress), Fin(ProgressCap, 1))

\* calculateProgress for executionStatus st (has = FALSE: undefined) and config cfg
calculateProgressOf(has, st, cfg) ==
    IF ~ has THEN Fin(0, 1)
    ELSE IF st.status = "completed" THEN Fin(100, 1)
    ELSE LET resultsReceived == Fin(SnapLen(st), 1)
             expectedTotal == Fin(cfg.max_items, 1)
             resultsProgress == JsTimes100(JsDiv(resultsReceived, expectedTotal))
             expectedBatches == MathCeil(JsDiv(Fin(cfg.max_items, 1), Fin(cfg.batch_size, 1)))
             batchProgress == JsTimes100(JsDiv(Fin(st.batchesReceived, 1), expectedBatches))
         IN  MathMin(MathMax(resultsProgress, batchProgress), Fin(ProgressCap, 1))

-----------------------------------------------------------------------------
(* Client: the status effect of ThreatAnalysisWorkflow *)

\* the onComplete calls the effect makes, in order, when it runs with tracked id
\* executionId and executionStatus st: the progressive update, then the final one
onComplete(executionId, st) ==
    (IF st.hasAllResults /\ Len(st.allResults) > 0
     THEN <<[executionId |-> executionId, results |-> st.allResults]>> ELSE <<>>)
    \o (IF st.status = "completed" /\ st.finalSummary # Undef
        THEN <<[executionId |-> executionId,
                results |-> IF st.hasAllResults THEN st.allResults ELSE <<>>]>>
        ELSE <<>>)

-----------------------------------------------------------------------------
(* Client: the threat data merge effect of IntegratedDashboard *)

\* mutant of MergeEffect: the snapshot is taken for a delta and appended
MergeEffectAppend(st, d) ==
    IF st.hasAllResults /\ Len(st.allResults) > 0 /\ Len(st.allResults) # Len(d.threatData)
    THEN [threatData |-> d.threatData \o st.allResults,
          forceUpdateCounter |-> d.forceUpdateCounter + 1,
          firstBatchReceived |-> TRUE]
    ELSE d

\* mutant of MergeEffect: every snapshot with results replaces the collection
MergeEffectAlways(st, d) ==
    IF st.hasAllResults /\ Len(st.allResults) > 0
    THEN [threatData |-> st.allResults,
          forceUpdateCounter |-> d.forceUpdateCounter + 1,
          firstBatchReceived |-> TRUE]
    ELSE d

\* mutant of MergeEffect: a snapshot with an empty list replaces the collection too
MergeEffectEmptyToo(st, d) ==
    IF st.hasAllResults /\ Len(st.allResults) # Len(d.threatData)
    THEN [threatData |-> st.allResults,
          forceUpdateCounter |-> d.forceUpdateCounter + 1,
          firstBatchReceived |-> TRUE]
    ELSE d

MergeEffect(st, d) ==
    IF st.hasAllResults /\ Len(st.allResults) > 0
    THEN LET newLength == Len(st.allResults)
             currentLength == Len(d.threatData)
         IN  IF newLength # currentLength
             THEN [threatData |-> st.allResults,
                   forceUpdateCounter |-> d.forceUpdateCounter + 1,
                   firstBatchReceived |-> TRUE]
             ELSE d
    ELSE d

display == [threatData |-> threatData, forceUpdateCounter |-> forceUpdateCounter,
            firstBatchReceived |-> firstBatchReceived]

\* the effect runs for the new executionStatus, and again when it has changed
\* firstBatchReceived, which is one of its dependencies
RunMergeEffect(st) ==
    LET once == MergeEffect(st, display)
        twice == IF once.firstBatchReceived # firstBatchReceived
                 THEN MergeEffect(st, once) ELSE once
    IN  /\ threatData' = twice.threatData
        /\ forceUpdateCounter' = twice.forceUpdateCounter
        /\ firstBatchReceived' = twice.firstBatchReceived

-----------------------------------------------------------------------------
\* useN8nData after the first render, called with the arguments url and ms
useN8nDataInit(url, ms) ==
    /\ webhookUrl = url
    /\ refreshInterval = ms
    /\ n8nData = <<>>
    /\ loading = TRUE
    /\ error = Null
    /\ fetches = EmptyMap
    /\ interval = "pending"

Init ==
    /\ useN8nDataInit("", DefaultRefreshInterval)
    /\ executions = EmptyMap
    /\ engine = EmptyMap
    /\ trigger = [phase |-> "idle", attempt |-> 0, id |-> Null]
    /\ view \in Views
    /\ config = [batch_size |-> DefaultBatchSize, max_items |-> DefaultMaxItems]
    /\ currentExecutionId = Null
    /\ cache = EmptyMap
    /\ inflight = EmptyMap
    /\ threatData = <<>>
    /\ forceUpdateCounter = 0
    /\ firstBatchReceived = FALSE
    /\ nonDecr = TRUE
    /\ restarts = 0
    /\ strays = 0
    /\ last = Other

-----------------------------------------------------------------------------
(* Client actions *)

\* mutant of startEnabled: the Start button and the inputs are rendered in every state
startEnabledAlways ==
    /\ view \in Views
    /\ ~ isProcessing

\* the Start button and the configuration inputs: rendered only while no id is
\* tracked in IntegratedDashboard, always in ThreatAnalysisWorkflow; disabled={isProcessing}
startEnabled ==
    /\ view \in Views
    /\ view = "IntegratedDashboard" => currentExecutionId = Null
    /\ ~ isProcessing

SetConfig(field, v) ==
    /\ UNCHANGED n8nVars
    /\ last' = Other
    /\ startEnabled
    /\ config' = [config EXCEPT ![field] = v]
    /\ config' # config
    /\ UNCHANGED <<relayVars, trigger, view, currentExecutionId, cache, inflight,
                   displayVars, nonDecr>>

NoData == ShortStatus(FALSE, Null, Undef)
Request == [phase |-> "request", data |-> NoData, failureCount |-> 0]
Response(data) == [phase |-> "response", data |-> data, failureCount |-> 0]

\* a fetch of ['execution', id]; a fetch already in flight is shared, not repeated
Fetch(id) == IF id \in DOMAIN inflight THEN inflight ELSE Put(inflight, id, Request)

handleTrigger ==
    /\ UNCHANGED n8nVars
    /\ last' = Other
    /\ startEnabled
    /\ trigger' = [phase |-> "request", attempt |-> 0, id |-> Null]
    /\ IF view = "IntegratedDashboard"
       THEN /\ threatData' = <<>>
            /\ firstBatchReceived' = FALSE
            /\ forceUpdateCounter' = 0
       ELSE UNCHANGED displayVars
    /\ UNCHANGED <<relayVars, view, config, currentExecutionId, cache, inflight, nonDecr>>

\* mutant of TriggerFailure: the mutation is retried once more than mutations.retry
TriggerFailureRetriesMore ==
    /\ UNCHANGED n8nVars
    /\ last' = [Other EXCEPT !.op = "TriggerFailure"]
    /\ trigger.phase = "request"
    /\ trigger' = IF trigger.attempt < MutationRetry + 1
                  THEN [trigger EXCEPT !.attempt = @ + 1]
                  ELSE [phase |-> "idle", attempt |-> 0, id |-> Null]
    /\ UNCHANGED <<relayVars, view, config, currentExecutionId, cache, inflight,
                   displayVars, nonDecr>>

\* the mutation failed (network error or non-OK response): mutations.retry
\* sends it once more, then onError leaves the execution id unset
TriggerFailure ==
    /\ UNCHANGED n8nVars
    /\ last' = [Other EXCEPT !.op = "TriggerFailure"]
    /\ trigger.phase = "request"
    /\ trigger' = IF trigger.attempt < MutationRetry
                  THEN [trigger EXCEPT !.attempt = @ + 1]
                  ELSE [phase |-> "idle", attempt |-> 0, id |-> Null]
    /\ UNCHANGED <<relayVars, view, config, currentExecutionId, cache, inflight,
                   displayVars, nonDecr>>

\* the engine has accepted the start request and its answer does not arrive
\* (fetch rejects): to the client the mutation has failed as in TriggerFailure
TriggerResponseLost ==
    /\ UNCHANGED n8nVars
    /\ last' = [Other EXCEPT !.op = "TriggerFailure"]
    /\ trigger.phase = "response"
    /\ trigger' = IF trigger.attempt < MutationRetry
                  THEN [phase |-> "request", attempt |-> trigger.attempt + 1, id |-> Null]
                  ELSE [phase |-> "idle", attempt |-> 0, id |-> Null]
    /\ UNCHANGED <<relayVars, view, config, currentExecutionId, cache, inflight,
                   displayVars, nonDecr>>

\* the response of the start request arrives: useTriggerAnalysis.onSuccess sets the
\* initial query data, handleTrigger's onSuccess tracks the id, and the query of the
\* new key fetches on mount
TriggerSuccess ==
    /\ UNCHANGED n8nVars
    /\ last' = Other
    /\ trigger.phase = "response"
    /\ LET id == trigger.id
       IN  /\ cache' = Put(cache, queryKey(id), initialData(id))
           /\ IF view \in Views
              THEN /\ currentExecutionId' = id
                   /\ inflight' = Fetch(id)
              ELSE UNCHANGED <<currentExecutionId, inflight>>
           /\ IF view = "IntegratedDashboard"
              THEN RunMergeEffect(initialData(id))
              ELSE UNCHANGED displayVars
    /\ trigger' = [phase |-> "idle", attempt |-> 0, id |-> Null]
    /\ nonDecr' = TRUE
    /\ UNCHANGED <<relayVars, view, config>>

\* mutant of Tick: the interval of a query outlives its observer
TickAnyQuery ==
    /\ UNCHANGED n8nVars
    /\ last' = Other
    /\ \E id \in DOMAIN cache :
          /\ refetchInterval(id)
          /\ id \notin DOMAIN inflight
          /\ inflight' = Put(inflight, id, Request)
    /\ UNCHANGED <<relayVars, trigger, view, config, currentExecutionId, cache,
                   displayVars, nonDecr>>

\* the refetchInterval timer of the tracked query fires
Tick ==
    /\ UNCHANGED n8nVars
    /\ last' = Other
    /\ enabled
    /\ refetchInterval(currentExecutionId)
    /\ currentExecutionId \notin DOMAIN inflight
    /\ inflight' = Fetch(currentExecutionId)
    /\ UNCHANGED <<relayVars, trigger, view, config, currentExecutionId, cache,
                   displayVars, nonDecr>>

\* mutant of VisibilityChange: refetchOnWindowFocus is off
VisibilityChangeNoRefetch ==
    /\ UNCHANGED n8nVars
    /\ last' = [Other EXCEPT !.op = "VisibilityChange"]
    /\ (view = "IntegratedDashboard" /\ Len(threatData) > 0) => forceUpdateCounter < MaxCounter
    /\ forceUpdateCounter' = IF view = "IntegratedDashboard" /\ Len(threatData) > 0
                             THEN forceUpdateCounter + 1 ELSE forceUpdateCounter
    /\ UNCHANGED <<relayVars, trigger, view, config, currentExecutionId, cache, inflight,
                   threatData, firstBatchReceived, nonDecr>>

\* the tab becomes visible: refetchOnWindowFocus refetches the tracked query, and
\* IntegratedDashboard's visibilitychange handler forces an update
VisibilityChange ==
    /\ UNCHANGED n8nVars
    /\ last' = IF enabled /\ currentExecutionId \in DOMAIN inflight
               THEN [Other EXCEPT !.op = "SharedFetch", !.id = currentExecutionId]
               ELSE [Other EXCEPT !.op = "VisibilityChange"]
    /\ (view = "IntegratedDashboard" /\ Len(threatData) > 0) => forceUpdateCounter < MaxCounter
    /\ inflight' = IF enabled THEN Fetch(currentExecutionId) ELSE inflight
    /\ forceUpdateCounter' = IF view = "IntegratedDashboard" /\ Len(threatData) > 0
                             THEN forceUpdateCounter + 1 ELSE forceUpdateCounter
    /\ UNCHANGED <<relayVars, trigger, view, config, currentExecutionId, cache,
                   threatData, firstBatchReceived, nonDecr>>

\* the browser comes back online: refetchOnReconnect
Reconnect ==
    /\ UNCHANGED n8nVars
    /\ last' = Other
    /\ enabled
    /\ currentExecutionId \notin DOMAIN inflight
    /\ inflight' = Fetch(currentExecutionId)
    /\ UNCHANGED <<relayVars, trigger, view, config, currentExecutionId, cache,
                   displayVars, nonDecr>>

\* the relay answers GET /status and getExecutionStatus picks the execution
ServeStatus(id) ==
    /\ UNCHANGED n8nVars
    /\ last' = Other
    /\ id \in DOMAIN inflight
    /\ inflight[id].phase = "request"
    /\ inflight' = [inflight EXCEPT ![id] = Response(getExecutionStatus(id, StatusResponse))]
    /\ UNCHANGED <<relayVars, trigger, view, config, currentExecutionId, cache,
                   displayVars, nonDecr>>

\* mutant of DeliverStatus: a response does not replace a snapshot with results
DeliverStatusKeepsFirst(id) ==
    /\ id \in DOMAIN inflight
    /\ inflight[id].phase = "response"
    /\ UNCHANGED n8nVars
    /\ last' = [op |-> "DeliverStatus", id |-> id, tracked |-> (id = currentExecutionId),
                same |-> (id \in DOMAIN cache /\ cache[id] = inflight[id].data),
                shared |-> (last.op = "SharedFetch" /\ last.id = id)]
    /\ cache' = IF id \in DOMAIN cache /\ SnapLen(cache[id]) > 0
                THEN cache ELSE Put(cache, queryKey(id), inflight[id].data)
    /\ inflight' = Remove(inflight, id)
    /\ UNCHANGED <<relayVars, trigger, view, config, currentExecutionId, displayVars, nonDecr>>

\* the query resolves: the data goes to the cache entry of the key it was fetched
\* for; the component that tracks this key re-renders and its merge effect runs
DeliverStatus(id) ==
    /\ id \in DOMAIN inflight
    /\ inflight[id].phase = "response"
    /\ UNCHANGED n8nVars
    /\ last' = [op |-> "DeliverStatus", id |-> id, tracked |-> (id = currentExecutionId),
                same |-> (id \in DOMAIN cache /\ cache[id] = inflight[id].data),
                shared |-> (last.op = "SharedFetch" /\ last.id = id)]
    /\ cache' = Put(cache, queryKey(id), inflight[id].data)
    /\ inflight' = Remove(inflight, id)
    /\ IF id = currentExecutionId
       THEN /\ nonDecr' = (nonDecr /\ SnapLen(inflight[id].data) >=
                              (IF id \in DOMAIN cache THEN SnapLen(cache[id]) ELSE 0))
            /\ IF view = "IntegratedDashboard"
               THEN RunMergeEffect(inflight[id].data)
               ELSE UNCHANGED displayVars
       ELSE UNCHANGED <<displayVars, nonDecr>>
    /\ UNCHANGED <<relayVars, trigger, view, config, currentExecutionId>>

\* mutant of StatusFailure: the failure is stored as the data of the query
StatusFailureStoresError(id) ==
    /\ id \in DOMAIN inflight
    /\ inflight[id].phase = "request"
    /\ UNCHANGED n8nVars
    /\ last' = [op |-> "StatusFailure", id |-> id, tracked |-> (id = currentExecutionId),
                same |-> FALSE]
    /\ inflight' = Remove(inflight, id)
    /\ cache' = Put(cache, queryKey(id), ShortStatus(FALSE, id, "error"))
    /\ UNCHANGED <<relayVars, trigger, view, config, currentExecutionId, displayVars, nonDecr>>

\* the status query fails (fetch rejects, or getExecutionStatus throws on a non-OK
\* response): the query is retried QueryRetry times, then it settles in error
\* and its data stays what it was
StatusFailure(id) ==
    /\ id \in DOMAIN inflight
    /\ inflight[id].phase = "request"
    /\ UNCHANGED n8nVars
    /\ last' = [op |-> "StatusFailure", id |-> id, tracked |-> (id = currentExecutionId),
                same |-> FALSE]
    /\ inflight' = IF inflight[id].failureCount < QueryRetry
                   THEN [inflight EXCEPT ![id].failureCount = @ + 1]
                   ELSE Remove(inflight, id)
    /\ UNCHANGED <<relayVars, trigger, view, config, currentExecutionId, cache,
                   displayVars, nonDecr>>

\* mutant of ServeMalformed: a body that cannot be read is stored as not found
ServeMalformedStoresNotFound(id, body) ==
    /\ id \in DOMAIN inflight
    /\ inflight[id].phase = "request"
    /\ UNCHANGED n8nVars
    /\ last' = [op |-> "ServeMalformed", id |-> id, tracked |-> (id = currentExecutionId),
                same |-> FALSE, dropped |-> getExecutionStatusThrows(body)]
    /\ inflight' = IF getExecutionStatusThrows(body)
                   THEN Remove(inflight, id)
                   ELSE [inflight EXCEPT ![id] =
                           Response(getExecutionStatus(id, body.executions))]
    /\ cache' = IF getExecutionStatusThrows(body)
                THEN Put(cache, queryKey(id), ShortStatus(FALSE, id, "not_found"))
                ELSE cache
    /\ UNCHANGED <<relayVars, trigger, view, config, currentExecutionId, displayVars, nonDecr>>

\* GET /status is answered with a malformed body: getExecutionStatus throws and the
\* query fails (retried like any failure), or it degrades the missing list to []
ServeMalformed(id, body) ==
    /\ id \in DOMAIN inflight
    /\ inflight[id].phase = "request"
    /\ UNCHANGED n8nVars
    /\ last' = [op |-> "ServeMalformed", id |-> id, tracked |-> (id = currentExecutionId),
                same |-> FALSE, dropped |-> getExecutionStatusThrows(body)]
    /\ inflight' = IF getExecutionStatusThrows(body)
                   THEN IF inflight[id].failureCount < QueryRetry
                        THEN [inflight EXCEPT ![id].failureCount = @ + 1]
                        ELSE Remove(inflight, id)
                   ELSE [inflight EXCEPT ![id] =
                           Response(getExecutionStatus(id, body.executions))]
    /\ UNCHANGED <<relayVars, trigger, view, config, currentExecutionId, cache,
                   displayVars, nonDecr>>

\* the dashboard view is left (route "/"): the component unmounts, its state is
\* gone and its query observer unsubscribes; the query cache and a fetch or a
\* mutation in flight stay
Unmount ==
    /\ view \in Views
    /\ UNCHANGED n8nVars
    /\ last' = [Other EXCEPT !.op = "Unmount"]
    /\ view' = "Landing"
    /\ currentExecutionId' = Null
    /\ config' = [batch_size |-> DefaultBatchSize, max_items |-> DefaultMaxItems]
    /\ threatData' = <<>>
    /\ forceUpdateCounter' = 0
    /\ firstBatchReceived' = FALSE
    /\ nonDecr' = TRUE
    /\ UNCHANGED <<relayVars, trigger, cache, inflight>>

\* a component is mounted again, with fresh state, once no mutation of the
\* unmounted one is pending
Mount(v) ==
    /\ view = "Landing"
    /\ trigger.phase = "idle"
    /\ UNCHANGED n8nVars
    /\ last' = Other
    /\ view' = v
    /\ UNCHANGED <<relayVars, trigger, config, currentExecutionId, cache, inflight,
                   displayVars, nonDecr>>

-----------------------------------------------------------------------------
(* Workflow engine and relay actions *)

\* the engine takes the start request, assigns the next execution id and answers
EngineAccept ==
    /\ UNCHANGED n8nVars
    /\ last' = Other
    /\ trigger.phase = "request"
    /\ Cardinality(DOMAIN engine) < Len(IdOrder)
    /\ LET id == IdOrder[Cardinality(DOMAIN engine) + 1]
       IN  /\ engine' = Put(engine, id, 0)
           /\ trigger' = [trigger EXCEPT !.phase = "response", !.id = id]
    /\ UNCHANGED <<executions, restarts, strays, view, config, currentExecutionId,
                   cache, inflight, displayVars, nonDecr>>

\* the engine's next callback of run id, in order: RunBatches batches, then completed
EngineEmit(id) ==
    /\ UNCHANGED n8nVars
    /\ last' = Other
    /\ id \in DOMAIN engine
    /\ engine[id] <= RunBatches
    /\ IF engine[id] < RunBatches
       THEN Callback(id, "batch_completed", TRUE, <<RunPlan[engine[id] + 1]>>, Undef)
       ELSE Callback(id, "completed", FALSE, <<>>, "S1")
    /\ engine' = [engine EXCEPT ![id] = @ + 1]
    /\ UNCHANGED <<restarts, strays, clientVars>>

\* a batch callback the engine has emitted before is delivered again (at-least-once)
RedeliverBatch(id, k) ==
    /\ UNCHANGED n8nVars
    /\ last' = Other
    /\ id \in DOMAIN engine
    /\ k <= engine[id]
    /\ strays < MaxStray
    /\ Callback(id, "batch_completed", TRUE, <<RunPlan[k]>>, Undef)
    /\ strays' = strays + 1
    /\ UNCHANGED <<engine, restarts, clientVars>>

\* a completed callback outside the engine's order, with any summary
StrayCompleted(id, summary) ==
    /\ UNCHANGED n8nVars
    /\ last' = Other
    /\ id \in DOMAIN engine
    /\ strays < MaxStray
    /\ Callback(id, "completed", FALSE, <<>>, summary)
    /\ strays' = strays + 1
    /\ UNCHANGED <<engine, restarts, clientVars>>

\* a completed callback whose body has no summary (the relay tests data.summary)
CompletedWithoutSummary(id) ==
    /\ UNCHANGED n8nVars
    /\ last' = Other
    /\ id \in DOMAIN engine
    /\ strays < MaxStray
    /\ Callback(id, "completed", FALSE, <<>>, Undef)
    /\ strays' = strays + 1
    /\ UNCHANGED <<engine, restarts, clientVars>>

\* a callback with any other status
StrayOther(id) ==
    /\ UNCHANGED n8nVars
    /\ last' = Other
    /\ id \in DOMAIN engine
    /\ strays < MaxStray
    /\ Callback(id, "started", FALSE, <<>>, Undef)
    /\ strays' = strays + 1
    /\ UNCHANGED <<engine, restarts, clientVars>>

\* the key of a callback whose body has no execution_id: data.execution_id || 'unknown'
UnknownId == "unknown"
CallbackStatuses == {"batch_completed", "completed", "started"}

\* a callback without execution_id, of any status
CallbackWithoutId(status) ==
    /\ UNCHANGED n8nVars
    /\ last' = Other
    /\ strays < MaxStray
    /\ \E k \in 1..RunBatches, summary \in Summaries :
          Callback(UnknownId, status, status = "batch_completed",
                   IF status = "batch_completed" THEN <<RunPlan[k]>> ELSE <<>>,
                   IF status = "completed" THEN summary ELSE Undef)
    /\ strays' = strays + 1
    /\ UNCHANGED <<engine, restarts, clientVars>>

\* the relay process is restarted: its Map starts empty again
RelayRestart ==
    /\ UNCHANGED n8nVars
    /\ last' = Other
    /\ restarts < MaxRestarts
    /\ executions # EmptyMap
    /\ executions' = EmptyMap
    /\ restarts' = restarts + 1
    /\ UNCHANGED <<engine, strays, clientVars>>

-----------------------------------------------------------------------------
\* the configuration is left at its defaults: it is read by calculateProgress only
Next ==
    \/ handleTrigger
    \/ TriggerFailure
    \/ TriggerSuccess
    \/ Tick
    \/ VisibilityChange
    \/ Reconnect
    \/ \E id \in ExecIds : ServeStatus(id)
    \/ \E id \in ExecIds : DeliverStatus(id)
    \/ EngineAccept
    \/ \E id \in ExecIds : EngineEmit(id)
    \/ \E id \in ExecIds, k \in 1..RunBatches : RedeliverBatch(id, k)
    \/ \E id \in ExecIds, s \in Summaries : StrayCompleted(id, s)
    \/ \E id \in ExecIds : StrayOther(id)

\* the executionStatus of the component, and the progress it shows
executionStatus == IF hasStatus THEN cache[currentExecutionId] ELSE NoData
progress == calculateProgressOf(hasStatus, executionStatus, config)

\* the relay runs for the whole session
Spec == Init /\ [][Next]_vars

\* the interval timer fires, every status query is answered and its response
\* arrives, the engine answers a start request and emits every callback of a run
Fairness ==
    /\ WF_vars(Tick)
    /\ WF_vars(EngineAccept)
    /\ WF_vars(TriggerSuccess)
    /\ \A id \in ExecIds : /\ WF_vars(ServeStatus(id))
                           /\ WF_vars(DeliverStatus(id))
                           /\ WF_vars(EngineEmit(id))
FairSpec == Spec /\ Fairness

\* the client's own steps are taken (the interval timer fires, an arrived response
\* is handled); a request may stay unanswered: fetch is called without a timeout
SlowFairness ==
    /\ WF_vars(Tick)
    /\ WF_vars(TriggerSuccess)
    /\ \A id \in ExecIds : WF_vars(DeliverStatus(id))
SlowSpec == Spec /\ SlowFairness

\* the relay may be restarted during the session
NextRestart == Next \/ RelayRestart
InitRestart == Init /\ view = "IntegratedDashboard"
SpecRestart == InitRestart /\ [][NextRestart]_vars

\* status queries may fail; the engine's callbacks reach the relay in order
NextFailure ==
    \/ handleTrigger
    \/ TriggerFailure
    \/ TriggerSuccess
    \/ Tick
    \/ VisibilityChange
    \/ Reconnect
    \/ \E id \in ExecIds : ServeStatus(id)
    \/ \E id \in ExecIds : DeliverStatus(id)
    \/ \E id \in ExecIds : StatusFailure(id)
    \/ EngineAccept
    \/ \E id \in ExecIds : EngineEmit(id)
SpecFailure == Init /\ [][NextFailure]_vars

\* status responses may be malformed
NextMalformed ==
    \/ NextFailure
    \/ \E id \in ExecIds, body \in MalformedBodies : ServeMalformed(id, body)
SpecMalformed == Init /\ [][NextMalformed]_vars

\* the dashboard view may be left and entered again
NextLeave ==
    \/ NextFailure
    \/ Unmount
    \/ \E v \in Views : Mount(v)
SpecLeave == Init /\ [][NextLeave]_vars

\* the configuration inputs are edited; the engine's callbacks reach the relay in order
NextConfig ==
    \/ \E field \in {"batch_size", "max_items"}, v \in InputValues : SetConfig(field, v)
    \/ handleTrigger
    \/ TriggerFailure
    \/ TriggerSuccess
    \/ Tick
    \/ VisibilityChange
    \/ Reconnect
    \/ \E id \in ExecIds : ServeStatus(id)
    \/ \E id \in ExecIds : DeliverStatus(id)
    \/ EngineAccept
    \/ \E id \in ExecIds : EngineEmit(id)
SpecConfig == Init /\ [][NextConfig]_vars

\* callbacks of every status reach the relay, with and without an execution_id
NextCallback ==
    \/ handleTrigger
    \/ TriggerSuccess
    \/ Tick
    \/ \E id \in ExecIds : ServeStatus(id)
    \/ \E id \in ExecIds : DeliverStatus(id)
    \/ EngineAccept
    \/ \E id \in ExecIds : EngineEmit(id)
    \/ \E id \in ExecIds, k \in 1..RunBatches : RedeliverBatch(id, k)
    \/ \E id \in ExecIds, s \in Summaries : StrayCompleted(id, s)
    \/ \E id \in ExecIds : StrayOther(id)
    \/ \E status \in CallbackStatuses : CallbackWithoutId(status)
SpecCallback == Init /\ [][NextCallback]_vars

\* one mounted IntegratedDashboard: every user action on it and every outcome of
\* the start request
NextStart ==
    \/ \E field \in {"batch_size", "max_items"}, v \in InputValues : SetConfig(field, v)
    \/ handleTrigger
    \/ TriggerFailure
    \/ TriggerResponseLost
    \/ TriggerSuccess
    \/ Tick
    \/ VisibilityChange
    \/ \E id \in ExecIds : ServeStatus(id)
    \/ \E id \in ExecIds : DeliverStatus(id)
    \/ EngineAccept
    \/ \E id \in ExecIds : EngineEmit(id)
SpecStart == InitRestart /\ [][NextStart]_vars

\* ThreatAnalysisWorkflow with completed callbacks of every shape
NextComplete ==
    \/ handleTrigger
    \/ TriggerSuccess
    \/ Tick
    \/ \E id \in ExecIds : ServeStatus(id)
    \/ \E id \in ExecIds : DeliverStatus(id)
    \/ EngineAccept
    \/ \E id \in ExecIds : EngineEmit(id)
    \/ \E id \in ExecIds, s \in Summaries : StrayCompleted(id, s)
    \/ \E id \in ExecIds : CompletedWithoutSummary(id)
InitComplete == Init /\ view = "ThreatAnalysisWorkflow"
SpecComplete == InitComplete /\ [][NextComplete]_vars

-----------------------------------------------------------------------------
(* calculateProgress as a function of executionStatus and config *)

ProgressBatchSizes == {1, 30, 50}
ProgressMaxItems == {1, 100, 200}
ProgressResultCounts == {0, 1, 100, 150, 200}
ProgressBatchCounts == 0..4

\* the snapshots getExecutionStatus returns for a known execution
ProgressSnapshots ==
    { [found |-> TRUE, executionId |-> "A",
       status |-> IF done THEN "completed" ELSE "processing",
       progress |-> IF done THEN 100 ELSE 0,
       hasAllResults |-> TRUE, allResults |-> [i \in 1..r |-> i],
       batchesReceived |-> b,
       finalSummary |-> IF done THEN "S1" ELSE Undef,
       completedTime |-> IF done THEN "set" ELSE Undef,
       totalResultsCount |-> r] :
      r \in ProgressResultCounts, b \in ProgressBatchCounts, done \in BOOLEAN }
    \cup {initialData("A")}

InitProgress ==
    /\ useN8nDataInit("", DefaultRefreshInterval)
    /\ executions = EmptyMap
    /\ engine = [x \in {"A"} |-> 0]
    /\ trigger = [phase |-> "idle", attempt |-> 0, id |-> Null]
    /\ view \in Views
    /\ config \in [batch_size : ProgressBatchSizes, max_items : ProgressMaxItems]
    /\ currentExecutionId = "A"
    /\ cache \in [{"A"} -> ProgressSnapshots]
    /\ inflight = EmptyMap
    /\ threatData = <<>>
    /\ forceUpdateCounter = 0
    /\ firstBatchReceived = FALSE
    /\ nonDecr = TRUE
    /\ restarts = 0
    /\ strays = 0
    /\ last = Other

\* the component renders: calculateProgress() is called
calculateProgress ==
    /\ last.op # "calculateProgress"
    /\ UNCHANGED n8nVars
    /\ last' = [op |-> "calculateProgress", id |-> currentExecutionId, tracked |-> TRUE,
                same |-> FALSE, value |-> progress]
    /\ UNCHANGED <<relayVars, clientVars>>

SpecProgress == InitProgress /\ [][calculateProgress]_vars

-----------------------------------------------------------------------------
(* useN8nData: fetchData and the polling effect *)

WebhookUrls == {"", "https://n8n/webhook"}
RefreshIntervals == {0, DefaultRefreshInterval}
FetchIds == 1..MaxFetches
\* bodies response.json() resolves to
JsonBodies == {<<>>, <<1>>, <<1, 2>>}
\* err.message of a rejected fetch(), of the thrown HTTP error, of a rejected response.json()
ErrorMessages == {"Failed to fetch", "HTTP error! status: 500", "Unexpected token"}

\* fetchData up to its first await: no request with an empty webhookUrl
fetchData ==
    IF webhookUrl = ""
    THEN /\ loading' = FALSE
         /\ UNCHANGED fetches
    ELSE /\ FetchIds \ DOMAIN fetches # {}
         /\ loading' = TRUE
         /\ LET f == CHOOSE x \in FetchIds \ DOMAIN fetches :
                        \A y \in FetchIds \ DOMAIN fetches : x <= y
            IN  fetches' = Put(fetches, f, [phase |-> "request", json |-> <<>>])

\* the polling effect runs after the first render: fetchData(), then setInterval
PollingEffect ==
    /\ interval = "pending"
    /\ fetchData
    /\ interval' = IF refreshInterval > 0 THEN "set" ELSE "none"
    /\ UNCHANGED <<webhookUrl, refreshInterval, n8nData, error>>
    /\ UNCHANGED <<relayVars, clientVars, last>>

\* the timer of setInterval(fetchData, refreshInterval) fires
IntervalFetch ==
    /\ interval = "set"
    /\ fetchData
    /\ UNCHANGED <<webhookUrl, refreshInterval, n8nData, error, interval>>
    /\ UNCHANGED <<relayVars, clientVars, last>>

\* the caller invokes the returned refetch
refetch ==
    /\ interval # "pending"
    /\ fetchData
    /\ UNCHANGED <<webhookUrl, refreshInterval, n8nData, error, interval>>
    /\ UNCHANGED <<relayVars, clientVars, last>>

\* await fetch(webhookUrl) resolves with an ok response: on to await response.json()
ResponseOk(f, json) ==
    /\ f \in DOMAIN fetches
    /\ fetches[f].phase = "request"
    /\ fetches' = [fetches EXCEPT ![f] = [phase |-> "body", json |-> json]]
    /\ UNCHANGED <<webhookUrl, refreshInterval, n8nData, loading, error, interval>>
    /\ UNCHANGED <<relayVars, clientVars, last>>

\* response.json() resolves: setData, setError(null), finally setLoading(false)
JsonResolves(f) ==
    /\ f \in DOMAIN fetches
    /\ fetches[f].phase = "body"
    /\ n8nData' = fetches[f].json
    /\ error' = Null
    /\ loading' = FALSE
    /\ fetches' = Remove(fetches, f)
    /\ UNCHANGED <<webhookUrl, refreshInterval, interval>>
    /\ UNCHANGED <<relayVars, clientVars, last>>

\* fetch() rejects, the response is not ok, or response.json() rejects:
\* catch sets error, finally setLoading(false)
FetchFailure(f, message) ==
    /\ f \in DOMAIN fetches
    /\ (fetches[f].phase = "body") <=> (message = "Unexpected token")
    /\ error' = message
    /\ loading' = FALSE
    /\ fetches' = Remove(fetches, f)
    /\ UNCHANGED <<webhookUrl, refreshInterval, n8nData, interval>>
    /\ UNCHANGED <<relayVars, clientVars, last>>

InitN8n ==
    /\ \E url \in WebhookUrls, ms \in RefreshIntervals : useN8nDataInit(url, ms)
    /\ executions = EmptyMap
    /\ engine = EmptyMap
    /\ trigger = [phase |-> "idle", attempt |-> 0, id |-> Null]
    /\ view = "Landing"
    /\ config = [batch_size |-> DefaultBatchSize, max_items |-> DefaultMaxItems]
    /\ currentExecutionId = Null
    /\ cache = EmptyMap
    /\ inflight = EmptyMap
    /\ threatData = <<>>
    /\ forceUpdateCounter = 0
    /\ firstBatchReceived = FALSE
    /\ nonDecr = TRUE
    /\ restarts = 0
    /\ strays = 0
    /\ last = Other

NextN8n ==
    \/ PollingEffect
    \/ IntervalFetch
    \/ refetch
    \/ \E f \in FetchIds, json \in JsonBodies : ResponseOk(f, json)
    \/ \E f \in FetchIds : JsonResolves(f)
    \/ \E f \in FetchIds, message \in ErrorMessages : FetchFailure(f, message)
SpecN8n == InitN8n /\ [][NextN8n]_vars

-----------------------------------------------------------------------------
(* Properties *)

\* a status query for the tracked id is issued in this step
QueryIssued ==
    /\ currentExecutionId # Null
    /\ currentExecutionId \notin DOMAIN inflight
    /\ currentExecutionId \in DOMAIN inflight'

\* the start of a new run (handleTrigger) happens in this step
ResetStep == trigger.phase = "idle" /\ trigger'.phase = "request"

\* C1: over snapshots of one execution id whose all_results length never
\* decreases, the length of threatData never decreases and equals the
\* all_results length of the latest snapshot after each merge.
MonotonicGrowth ==
    [][(currentExecutionId' # Null /\ nonDecr')
         => /\ Len(threatData') >= Len(threatData)
            /\ Len(threatData') = SnapLen(cache'[currentExecutionId'])]_vars

\* C1 witness: two merges of growing snapshots have happened
MonotonicGrowthWitness ==
    /\ nonDecr /\ currentExecutionId # Null /\ last.op = "DeliverStatus" /\ last.tracked
    /\ Len(threatData) = RunBatches /\ forceUpdateCounter >= 2

\* C2: once a completed snapshot is stored for the tracked id, no later step
\* changes threatData or the stored finalSummary of that id.
CompletionFreeze ==
    [][(hasStatus /\ statusOf = "completed" /\ currentExecutionId' = currentExecutionId)
         => /\ threatData' = threatData
            /\ cache'[currentExecutionId].finalSummary = cache[currentExecutionId].finalSummary]_vars

\* C3: a response that arrives for an id that is no longer tracked changes neither
\* the ExecutionStatus of the tracked id nor the displayed collection.
StaleResponseRejected ==
    [][\A id \in DOMAIN inflight :
          (id \notin DOMAIN inflight' /\ id # currentExecutionId)
            => /\ currentExecutionId' = currentExecutionId
               /\ currentExecutionId \in DOMAIN cache =>
                     /\ currentExecutionId \in DOMAIN cache'
                     /\ cache'[currentExecutionId] = cache[currentExecutionId]
               /\ UNCHANGED displayVars]_vars

\* C3 witness: the response of a query issued for the previous id has just been
\* delivered while a newer id is tracked
StaleResponseWitness ==
    /\ last.op = "DeliverStatus" /\ ~ last.tracked
    /\ currentExecutionId # Null /\ last.id # currentExecutionId

RepeatedSnapshotNoOp ==
    [][(/\ currentExecutionId \in DOMAIN inflight
        /\ currentExecutionId \notin DOMAIN inflight'
        /\ currentExecutionId \in DOMAIN cache
        /\ inflight[currentExecutionId].data = cache[currentExecutionId])
         => UNCHANGED displayVars]_vars

\* C5 witness: a snapshot with results has just been merged a second time
RepeatedSnapshotWitness ==
    /\ view = "IntegratedDashboard"
    /\ last.op = "DeliverStatus" /\ last.tracked /\ last.same
    /\ Len(threatData) > 0

\* C6: calculateProgress is in [0, 99] whenever the status is processing and is
\* exactly 100 whenever it is completed, for every results_received <= max_items
\* and batches_received <= ceil(max_items / batch_size).
ProgressClamp ==
    (/\ hasStatus
     /\ JsLeq(Fin(SnapLen(executionStatus), 1), Fin(config.max_items, 1))
     /\ JsLeq(Fin(executionStatus.batchesReceived, 1),
              MathCeil(JsDiv(Fin(config.max_items, 1), Fin(config.batch_size, 1)))))
    => /\ statusOf = "processing" =>
            JsLeq(Fin(0, 1), progress) /\ JsLeq(progress, Fin(ProgressCap, 1))
       /\ statusOf = "completed" => progress = Fin(100, 1)

\* C7: threatData never gets shorter except when a new run is started.
NeverShrinks ==
    [][Len(threatData') >= Len(threatData) \/ ResetStep]_vars

\* C8: a run that was started and is tracked eventually has status completed
\* stored, with polling stopped, when every callback reaches the relay and every
\* status query returns.
EventuallyCompleted ==
    \A id \in ExecIds :
        [](currentExecutionId = id
             => <>(/\ id \in DOMAIN cache
                   /\ cache[id].status = "completed"
                   /\ ~ refetchInterval(id)))

\* C9: threatData never holds two records with the same _unique_id.
Deduplicated ==
    \A i, j \in DOMAIN threatData : i # j => threatData[i] # threatData[j]

\* C10: whenever the stored status of the tracked id is completed, the length of
\* threatData equals the relay's total_results_count of that id.
CompletedCountMatches ==
    (view = "IntegratedDashboard" /\ hasStatus /\ statusOf = "completed")
    => /\ currentExecutionId \in DOMAIN executions
       /\ Len(threatData) = Len(executions[currentExecutionId].allResults)

\* C11: from a state in which a completed snapshot is stored for the tracked id
\* the refetch interval issues no status query, whatever the result count, and
\* the step that stores a completed snapshot stores its finalSummary.
CompletedStopsInterval ==
    [][/\ (hasStatus /\ statusOf = "completed") => ~ Tick
       /\ \A id \in DOMAIN inflight :
             (/\ id = currentExecutionId
              /\ id \notin DOMAIN inflight'
              /\ inflight[id].data.status = "completed")
               => /\ cache'[id].status = "completed"
                  /\ cache'[id].finalSummary = inflight[id].data.finalSummary]_vars

\* C11 witness: a completed snapshot whose result count differs from max_items
\* has just been stored with the summary of the completed callback
CompletedStopsIntervalWitness ==
    /\ hasStatus /\ statusOf = "completed"
    /\ last.op = "DeliverStatus" /\ last.tracked
    /\ SnapLen(executionStatus) # config.max_items
    /\ executionStatus.finalSummary \in Summaries

\* C12: while a found=false snapshot is stored for the tracked id, the run is not
\* presented as processing: isProcessing is false.
NotFoundNotProcessing ==
    (hasStatus /\ ~ cache[currentExecutionId].found) => ~ isProcessing

\* C13: a status query that fails (a failed attempt, or the last retry) leaves the
\* stored ExecutionStatus of every id and the displayed collection unchanged.
FailedQueryKeepsState ==
    [][\A id \in DOMAIN inflight :
          (/\ inflight[id].phase = "request"
           /\ \/ id \notin DOMAIN inflight'
              \/ inflight'[id].failureCount > inflight[id].failureCount)
            => /\ cache' = cache
               /\ currentExecutionId' = currentExecutionId
               /\ UNCHANGED displayVars]_vars

\* C13 witness: the query of the tracked id has just settled in error while a
\* snapshot with results is stored
FailedQueryWitness ==
    /\ last.op = "StatusFailure" /\ last.tracked
    /\ currentExecutionId \notin DOMAIN inflight
    /\ hasStatus /\ SnapLen(executionStatus) > 0

\* C14: no status query is in flight while no execution id is tracked, every
\* status query is for an id the engine returned to a start request, and a start
\* request that fails for good leaves the tracked id and the queries as they are.
NoQueryBeforeStart ==
    [][/\ currentExecutionId' = Null => inflight' = EmptyMap
       /\ \A id \in DOMAIN inflight' : id \in DOMAIN engine'
       /\ (trigger.phase = "request" /\ trigger'.phase = "idle")
            => /\ currentExecutionId' = currentExecutionId
               /\ inflight' = inflight]_vars

\* C14 witness: a start request has failed for good and nothing is tracked
FailedStartWitness ==
    /\ last.op = "TriggerFailure" /\ trigger.phase = "idle"
    /\ currentExecutionId = Null /\ inflight = EmptyMap

\* the number x is the fraction n/d
IsFraction(x, n, d) == x.k = "fin" /\ x.n * d = n * x.d

\* min(99, max(r / m, b / ceil(m / bs)) * 100) as a pair <<n, d>>, for m, bs > 0
ExpectedProgress(r, b, m, bs) ==
    LET e == (m + bs - 1) \div bs
        byResults == 100 * r * e >= 100 * b * m
        n == IF byResults THEN 100 * r ELSE 100 * b
        d == IF byResults THEN m ELSE e
    IN  IF n >= ProgressCap * d THEN <<ProgressCap, 1>> ELSE <<n, d>>

\* C15: while processing, calculateProgress is
\* min(99, max(results / max_items, batches / ceil(max_items / batch_size)) * 100);
\* with max_items 200, batch_size 50, 2 batches and 100 results it is 50; once
\* the status is completed it is 100 whatever the result count.
ProgressFormula ==
    last.op = "calculateProgress" =>
        LET st == executionStatus
            e == ExpectedProgress(SnapLen(st), st.batchesReceived,
                                  config.max_items, config.batch_size)
        IN  /\ st.status = "processing" => IsFraction(last.value, e[1], e[2])
            /\ (/\ st.status = "processing"
                /\ config = [batch_size |-> DefaultBatchSize, max_items |-> DefaultMaxItems]
                /\ st.batchesReceived = 2 /\ SnapLen(st) = 100)
                 => IsFraction(last.value, 50, 1)
            /\ st.status = "completed" => last.value = Fin(100, 1)

\* C15 witness: calculateProgress was called for the example of the spec
ProgressFormulaWitness ==
    /\ last.op = "calculateProgress"
    /\ statusOf = "processing"
    /\ config = [batch_size |-> DefaultBatchSize, max_items |-> DefaultMaxItems]
    /\ executionStatus.batchesReceived = 2 /\ SnapLen(executionStatus) = 100

\* the response of the tracked query is delivered to IntegratedDashboard in this
\* step: the merge effect runs for its snapshot
MergeStep ==
    /\ view = "IntegratedDashboard"
    /\ currentExecutionId \in DOMAIN inflight
    /\ inflight[currentExecutionId].phase = "response"
    /\ currentExecutionId \notin DOMAIN inflight'

\* C16 as stated: a snapshot whose list differs in length from threatData replaces
\* it wholesale, every other snapshot is a no-op, also for an empty list.
MergeRuleAnyLength ==
    [][MergeStep =>
         LET st == inflight[currentExecutionId].data
         IN  IF st.hasAllResults /\ Len(st.allResults) # Len(threatData)
             THEN threatData' = st.allResults
             ELSE threatData' = threatData]_vars

\* C16 amended: a snapshot with a non-empty list whose length differs from that of
\* threatData replaces it wholesale; a snapshot of the same length, with an empty
\* list or with no list is a no-op.
MergeRule ==
    [][MergeStep =>
         LET st == inflight[currentExecutionId].data
         IN  IF st.hasAllResults /\ Len(st.allResults) > 0
                /\ Len(st.allResults) # Len(threatData)
             THEN threatData' = st.allResults
             ELSE UNCHANGED displayVars]_vars

\* C16 witness: a snapshot with an empty list has just been merged while
\* threatData holds records
MergeRuleWitness ==
    /\ view = "IntegratedDashboard"
    /\ last.op = "DeliverStatus" /\ last.tracked
    /\ executionStatus.hasAllResults /\ Len(executionStatus.allResults) = 0
    /\ Len(threatData) > 0

IsPrefix(s, t) == Len(s) <= Len(t) /\ \A i \in 1..Len(s) : s[i] = t[i]

\* C17: whatever callback the relay receives, the all_results that /status
\* returns for an execution id before the step is a prefix of the all_results it
\* returns for that id after the step: results are appended only.
AllResultsAppendOnly ==
    [][\A e \in StatusResponse :
          \E f \in StatusResponse' :
             /\ f.execution_id = e.execution_id
             /\ IsPrefix(e.all_results, f.all_results)
             /\ f.total_results_count = Len(f.all_results)]_vars

\* C17 witness: the relay has accumulated results over callbacks that include
\* one outside the engine's order
AllResultsAppendOnlyWitness ==
    /\ strays > 0
    /\ \E e \in StatusResponse : Len(e.all_results) > RunBatches

\* the status getExecutionStatus derives for id from the relay's present state
DerivedStatus(id) == getExecutionStatus(id, StatusResponse).status

StatusRank(status) ==
    CASE status = "not_found" -> 0
      [] status = "processing" -> 1
      [] status = "completed" -> 2

\* C18 as stated: the derived status of an id never moves backward and is never
\* completed right after not_found.
StatusOrderStrict ==
    [][executions' # executions => \A id \in ExecIds :
          /\ StatusRank(DerivedStatus(id)') >= StatusRank(DerivedStatus(id))
          /\ DerivedStatus(id)' = "completed" => DerivedStatus(id) # "not_found"]_vars

\* C18 amended: over any sequence of callbacks the derived status of an id never
\* moves backward along not_found, processing, completed (it moves from not_found
\* to completed at once when the first callback received for the id is completed).
StatusOrder ==
    [][executions' # executions => \A id \in ExecIds :
          StatusRank(DerivedStatus(id)') >= StatusRank(DerivedStatus(id))]_vars

\* C18 witness: an execution is completed and the relay has received a batch
\* callback for it after the completed one
StatusOrderWitness ==
    \E id \in DOMAIN executions :
        /\ DerivedStatus(id) = "completed"
        /\ strays > 0
        /\ engine[id] > RunBatches
        /\ executions[id].batches > RunBatches

\* C19: status queries of one execution id that overlap share one fetch; the
\* response that arrives is stored as the ExecutionStatus of its id, and a stored
\* ExecutionStatus changes only when a response for its id arrives, so the stored
\* state is always that of the response received last.
ReceiptOrder ==
    [][/\ \A id \in DOMAIN inflight :
             (inflight[id].phase = "response" /\ id \notin DOMAIN inflight')
               => cache'[id] = inflight[id].data
       /\ \A id \in DOMAIN cache :
             /\ id \in DOMAIN cache'
             /\ cache'[id] # cache[id]
                  => /\ id \in DOMAIN inflight
                     /\ inflight[id].phase = "response"
                     /\ id \notin DOMAIN inflight']_vars

\* C19 witness: a refetch was asked for while the query of the tracked id was in
\* flight and shared its fetch, and the response has just been stored over an
\* earlier one
ReceiptOrderWitness ==
    /\ last.op = "DeliverStatus" /\ last.tracked /\ last.shared /\ ~ last.same
    /\ hasStatus /\ SnapLen(executionStatus) > 0

\* C20: every start request and every status query ends, also one that is never
\* answered, and while the stored status of the tracked id is processing a status
\* query is in flight again and again.
RequestsEnd ==
    /\ [](trigger.phase = "request" => <>(trigger.phase # "request"))
    /\ \A id \in ExecIds :
          /\ [](id \in DOMAIN inflight => <>(id \notin DOMAIN inflight))
          /\ []((currentExecutionId = id /\ statusOf = "processing")
                  => <>(statusOf # "processing" \/ id \in DOMAIN inflight))

\* the tab becomes visible in this step while IntegratedDashboard tracks an id
VisibleStep ==
    /\ last'.op \in {"VisibilityChange", "SharedFetch"}
    /\ view = "IntegratedDashboard"
    /\ currentExecutionId # Null

\* C21 as stated: when the tab becomes visible while an id is tracked, a status
\* query for it is in flight at once and a re-render is forced, with or without
\* results received.
VisibleRefetchAndRender ==
    [][VisibleStep => /\ currentExecutionId \in DOMAIN inflight'
                      /\ forceUpdateCounter' = forceUpdateCounter + 1]_vars

\* C21 amended: when the tab becomes visible while an id is tracked, a status
\* query for it is in flight at once (a fresh one, or the one already in flight),
\* and a re-render is forced exactly when threatData holds records.
VisibleRefetch ==
    [][VisibleStep => /\ currentExecutionId \in DOMAIN inflight'
                      /\ forceUpdateCounter' = IF Len(threatData) > 0
                                               THEN forceUpdateCounter + 1
                                               ELSE forceUpdateCounter]_vars

\* C21 witness: the tab has just become visible before any result was received,
\* and a fresh status query is on its way
VisibleRefetchWitness ==
    /\ last.op = "VisibilityChange"
    /\ view = "IntegratedDashboard" /\ currentExecutionId # Null
    /\ Len(threatData) = 0
    /\ currentExecutionId \in DOMAIN inflight
    /\ inflight[currentExecutionId].phase = "request"

StartRetriedOnce ==
    [][/\ trigger'.attempt <= MutationRetry
       /\ (trigger.phase = "request" /\ trigger'.phase = "idle")
            => /\ trigger.attempt = MutationRetry
               /\ currentExecutionId' = currentExecutionId
               /\ view = "IntegratedDashboard" => currentExecutionId' = Null
               /\ startEnabled']_vars

\* C23 witness: the retry of a start request has failed too, and the start
\* control is enabled with no execution id tracked
StartRetriedOnceWitness ==
    /\ last.op = "TriggerFailure" /\ ~ isPending
    /\ currentExecutionId = Null /\ startEnabled

\* C24: a status query is issued only for the execution id that is tracked by a
\* mounted component at that moment: none for a previous id after a new run was
\* started, none after the view was left.
NoQueryForPreviousId ==
    [][\A id \in ExecIds :
          (id \notin DOMAIN inflight /\ id \in DOMAIN inflight')
            => /\ view' \in Views
               /\ currentExecutionId' = id]_vars

\* C24 witness: the view has been left while the interval of the tracked query
\* was running, and no query of that id is in flight
NoQueryForPreviousIdWitness ==
    /\ view = "Landing" /\ last.op = "Unmount"
    /\ \E id \in DOMAIN cache : refetchInterval(id) /\ id \notin DOMAIN inflight

\* C25: for every id, getExecutionStatus applied to the relay's executions list
\* returns executionId = id; found is false, with status not_found and progress
\* 0, exactly when the list has no execution of that id; otherwise the status is
\* completed exactly when completed_time is set (else processing), and progress
\* is 100 exactly when the status is completed and 0 otherwise.
GetExecutionStatusFilters ==
    \A id \in ExecIds :
        LET r == getExecutionStatus(id, StatusResponse)
        IN  /\ r.executionId = id
            /\ r.found <=> (\E e \in StatusResponse : e.execution_id = id)
            /\ ~ r.found => (r.status = "not_found" /\ r.progress = 0)
            /\ r.found =>
                 /\ r.status = IF executions[id].completedTime # Undef
                               THEN "completed" ELSE "processing"
                 /\ r.allResults = executions[id].allResults
                 /\ r.batchesReceived = executions[id].batches
            /\ r.progress = IF r.status = "completed" THEN 100 ELSE 0

\* C25 witness: the relay holds a completed and a processing execution, and the
\* response of a query for the processing one is on its way to the client
GetExecutionStatusFiltersWitness ==
    /\ \E id \in DOMAIN executions : executions[id].completedTime # Undef
    /\ \E id \in DOMAIN inflight :
          /\ inflight[id].phase = "response"
          /\ inflight[id].data.found
          /\ inflight[id].data.status = "processing"
          /\ inflight[id].data.executionId = id

\* C26: over one run whose snapshots are append-only, the value of
\* calculateProgress is non-decreasing from one stored snapshot to the next, and
\* the configuration (max_items, batch_size) does not change while the run is
\* tracked and not completed.
ProgressNonDecreasing ==
    [][(/\ currentExecutionId # Null
        /\ currentExecutionId' = currentExecutionId
        /\ hasStatus)
       => /\ (/\ executionStatus' # executionStatus
               /\ IsPrefix(executionStatus.allResults, executionStatus'.allResults)
               /\ executionStatus.batchesReceived <= executionStatus'.batchesReceived)
              => JsLeq(progress, progress')
          /\ statusOf # "completed" => config' = config]_vars

\* the relay receives a callback that it files under executionId
CallbackFor(executionId) ==
    \/ EngineEmit(executionId)
    \/ \E k \in 1..RunBatches : RedeliverBatch(executionId, k)
    \/ \E summary \in Summaries : StrayCompleted(executionId, summary)
    \/ StrayOther(executionId)
    \/ executionId = UnknownId /\ \E status \in CallbackStatuses : CallbackWithoutId(status)

\* C27: a callback the relay files under one execution id leaves the record of
\* every other execution id as it was (batches, accumulated results, completion
\* time, final summary), whatever its status and also when it has no
\* execution_id and is filed under 'unknown'.
CallbackFrame ==
    [][\A executionId \in ExecIds \cup {UnknownId} :
         CallbackFor(executionId) =>
            \A other \in DOMAIN executions \ {executionId} :
               other \in DOMAIN executions' /\ executions'[other] = executions[other]]_vars

\* C27 witness: the relay holds results of run A, a completed run B and a record
\* made by a callback without execution_id
CallbackFrameWitness ==
    /\ DOMAIN executions = ExecIds \cup {UnknownId}
    /\ Len(executions["A"].allResults) = RunBatches
    /\ executions["A"].completedTime # Undef
    /\ executions["B"].batches > 0
    /\ executions[UnknownId] # NewExecution

\* in a mounted IntegratedDashboard the tracked id changes from null only, the
\* start control and the configuration inputs act only while no id is tracked,
\* and the snapshot handed to the merge effect is one of the tracked id
TrackedIdStep ==
    /\ currentExecutionId' # currentExecutionId => currentExecutionId = Null
    /\ (config' # config \/ (trigger.phase = "idle" /\ trigger'.phase = "request"))
          => currentExecutionId = Null
    /\ hasStatus' => executionStatus'.executionId = currentExecutionId'

\* C28: in IntegratedDashboard the tracked execution id changes at most once,
\* from null to an id; the start control and the configuration inputs exist only
\* while no id is tracked; at most one run is started per mounted dashboard; the
\* merge effect never receives snapshots of two different execution ids.
OneRunPerDashboard ==
    [][TrackedIdStep /\ Cardinality(DOMAIN engine') <= 1]_vars

\* C28 amended: as OneRunPerDashboard, with "at most one run is started" read as
\* "at most one started run is ever tracked" (the id changes from null only).
TrackedIdChangesOnce ==
    [][TrackedIdStep]_vars

\* C28 witness: the dashboard tracks the second run the engine has started, after
\* the inputs were edited, and has seen it completed
TrackedIdChangesOnceWitness ==
    /\ view = "IntegratedDashboard"
    /\ currentExecutionId = "B"
    /\ isCompleted
    /\ Len(threatData) = RunBatches
    /\ config.max_items = 0

\* C29: in ThreatAnalysisWorkflow, whenever a snapshot of the tracked execution
\* with status completed has been stored, the status effect has invoked onComplete
\* with the tracked id and the whole result list of that snapshot, and every
\* onComplete call of the effect carries the id the results belong to.
CompletedReported ==
    (/\ view = "ThreatAnalysisWorkflow"
     /\ last.op = "DeliverStatus"
     /\ last.tracked)
    => LET calls == onComplete(currentExecutionId, executionStatus)
       IN  /\ statusOf = "completed" =>
                \E i \in 1..Len(calls) :
                   /\ calls[i].executionId = currentExecutionId
                   /\ calls[i].results = executionStatus.allResults
           /\ \A i \in 1..Len(calls) :
                calls[i].executionId = executionStatus.executionId

\* C30: in useN8nData, after every step of every interleaving of interval and
\* manual fetches, loading is true exactly when a fetch is in flight; a fetch
\* that fails leaves data as it is and sets error; a fetch that succeeds replaces
\* data with the body and clears error; with an empty webhookUrl no request is
\* in flight, ever.
LoadingWhileFetching ==
    [][/\ loading' <=> (DOMAIN fetches' # {})
       /\ \A f \in FetchIds :
            (\E message \in ErrorMessages : FetchFailure(f, message))
               => (n8nData' = n8nData /\ error' # Null)
       /\ \A f \in FetchIds :
            JsonResolves(f) => (n8nData' = fetches[f].json /\ error' = Null)
       /\ webhookUrl = "" => DOMAIN fetches' = {}]_vars

====
